---- MODULE Spec2Model ----
(***************************************************************************)
(* CH-LOCATOR: coronal-hole locator workers.                               *)
(*                                                                         *)
(* The repository holds six variants of one request handler:               *)
(*   1  src/src/index.js      1-321   colour PNG, contours drawn as lines  *)
(*   2  src/src/index.js    323-532   colour PNG, cyan edge points         *)
(*   3  src/src/index.js    534-741   grey/log PNG, cyan edge points       *)
(*   4  src/unnamed/part_000          grey/log BMP, dark cells zeroed      *)
(*   5  src/unnamed/part_001  1-215   grey/log BMP, dark cells zeroed      *)
(*   6  src/unnamed/part_001 217-387  grey/log PNG, cyan edge points       *)
(*                                                                         *)
(* Eight specifications share the operators below:                         *)
(*   Spec              one request through the handler of a variant        *)
(*   SpecPipeline      the analysis of one decoded image by a variant      *)
(*   SpecContours      extractContours, one step of its loops per action   *)
(*   SpecContoursFair  SpecContours with weak fairness of its steps        *)
(*   SpecDown          the downscale arithmetic on large source sizes      *)
(*   SpecOverlay       detection and rendering on images with dark spots   *)
(*   SpecLine          drawLine, one iteration of its loop per action      *)
(*   SpecConcurrent    several invocations of a handler, interleaved at    *)
(*                     their awaits                                        *)
(*                                                                         *)
(* Not modelled: the timestamp of the response and the text of the base64  *)
(* encoding (image_data carries the encoded image itself).  The ?date=     *)
(* query parameter of variants 4-6 is an input of SpecConcurrent only; the *)
(* other specifications use the default date.                              *)
(***************************************************************************)
EXTENDS Integers, Sequences, FiniteSets, TLC

VARIABLES
  variant,     \* which of the six handlers serves the request
  cfg,         \* the tunables: target size, dark threshold, radius fraction
  path,        \* url.pathname of the request
  pc,          \* position of the handler: start, awaitFetch, awaitBody, done
  resp,        \* the settled upstream response (status), or NoValue
  fetchCount,  \* number of calls of fetch()
  decodeCount, \* number of calls of jpeg.decode()
  decoded,     \* {width, height, data} returned by the decoder, or NoValue
  analysis,    \* everything the pipeline computed for the request, or NoValue
  response,    \* what the handler returned (or the exception it let escape)
  edgeMask,    \* SpecContours: the mask handed to extractContours
  maskW,       \* SpecContours: w
  maskH,       \* SpecContours: h
  ec,          \* SpecContours: the locals of extractContours
  srcW,        \* SpecDown: width of the decoded image
  srcH,        \* SpecDown: height of the decoded image
  down,        \* SpecDown: step, outW, outH, or NoValue
  line,        \* SpecLine: the arguments and locals of one drawLine call
  reqs         \* SpecConcurrent: the locals of each handler invocation

vars == <<variant, cfg, path, pc, resp, fetchCount, decodeCount, decoded,
          analysis, response, edgeMask, maskW, maskH, ec, srcW, srcH, down,
          line, reqs>>

handlerVars == <<variant, cfg, path, pc, resp, fetchCount, decodeCount,
                 decoded, analysis, response>>
contourVars == <<edgeMask, maskW, maskH, ec>>
downVars == <<srcW, srcH, down>>
lineVars == <<line>>
reqVars == <<reqs>>

NoValue == [none |-> TRUE]

(***************************************************************************)
(* Bounds of the model.                                                    *)
(***************************************************************************)
MaxWidth == 5      \* decoded images are 1..MaxWidth wide
MaxHeight == 5     \* and 1..MaxHeight high
MaxRun == 2        \* length of the run of pixels that differ from the background
MaxMaskW == 3      \* SpecContours: masks are 1..MaxMaskW wide
MaxMaskH == 3      \* SpecContours: and 1..MaxMaskH high
MaxSrcW == 2047    \* SpecDown: source widths 1..MaxSrcW
MaxSrcH == 3       \* SpecDown: source heights 0..MaxSrcH
MaxDark == 8       \* SpecOverlay: number of darker cells in an image
MaxLineW == 3      \* SpecLine: buffers are 1..MaxLineW wide
MaxLineH == 2      \* SpecLine: and 1..MaxLineH high
NumRequests == 2   \* SpecConcurrent: invocations in flight together

(***************************************************************************)
(* Program constants.                                                      *)
(***************************************************************************)
Variants == 1..6
LineVariants == {1}            \* edge mask + extractContours + drawLine
ColourVariants == {1, 2}       \* separate lumBuf, colour kept in rgba
GreyPngVariants == {3, 6}      \* luminance read back from rgba's R channel
BmpVariants == {4, 5}          \* single-channel grayPixels, BMP preview
CatchAllVariants == {1, 2, 3}  \* fetch() body wrapped in try/catch

TARGET_SIZE == 512
MIN_CONTOUR == 5
CYAN_white == <<255, 255, 255>>

CYAN == <<0, 255, 255>>

CH_THRESHOLD(v) == IF v = 1 THEN 50 ELSE 80

\* SOLAR_RADIUS as a fraction num/den
SOLAR_RADIUS(v) == IF v \in {1, 2} THEN <<43, 100>> ELSE <<46, 100>>

ProgramCfg(v) ==
  [target |-> TARGET_SIZE, threshold |-> CH_THRESHOLD(v),
   radNum |-> SOLAR_RADIUS(v)[1], radDen |-> SOLAR_RADIUS(v)[2]]

\* The constants are tunables of the design: besides each variant's own
\* values the model runs one tuned setting, with a small target size (so
\* that the stride exceeds 1 on small images), threshold 100 and the disk
\* radius equal to the grid width.
TunedCfg ==
  [target |-> 5, threshold |-> 100, radNum |-> 1, radDen |-> 1]

Cfgs(v) == {ProgramCfg(v), TunedCfg}

(***************************************************************************)
(* Typed arrays.  A buffer is a function on 0..n-1.  Reading outside it    *)
(* gives undefined; storing undefined (NaN) in a Uint8Array stores 0.      *)
(***************************************************************************)
\* undefined is carried as a value no byte can take
Undefined == 0 - 1

ReadAt(a, i) == IF i \in DOMAIN a THEN a[i] ELSE Undefined

WriteAt(a, i, val) == IF i \in DOMAIN a THEN [a EXCEPT ![i] = val] ELSE a

Uint8Array(n) == [i \in 0..(n - 1) |-> 0]

Max(a, b) == IF a >= b THEN a ELSE b
Min(a, b) == IF a <= b THEN a ELSE b
Abs(a) == IF a < 0 THEN -a ELSE a

(***************************************************************************)
(* Luminance.  lum = 0.299 r + 0.587 g + 0.114 b is carried in thousandths *)
(* (an integer); the byte stored in a Uint8Array is its integer part.      *)
(* In IEEE doubles the sum can fall just below an exact integer (grey 4    *)
(* gives 3.9999999999999996, stored as 3); the integer part of the exact   *)
(* value is the stored byte whenever the exact value is not an integer,    *)
(* which holds for every colour of the Palette below.                      *)
(***************************************************************************)
LumMilli(r, g, b) == 299 * r + 587 * g + 114 * b

LinearByte(r, g, b) ==
  LET m == LumMilli(r, g, b)
      clamped == IF m < 0 THEN 0 ELSE IF m > 255000 THEN 255000 ELSE m
  IN  clamped \div 1000

\* LOG_EDGE[k] is the least lum (in thousandths) with
\* log1p(lum) / log1p(255) * 255 >= k, i.e. ceil(1000 * (256^(k/255) - 1)).
LOG_EDGE ==
  <<
     22, 45, 68, 91, 115, 140, 165, 191, 217, 243, 271, 299,
     327, 356, 386, 417, 448, 480, 512, 545, 579, 614, 649, 686,
     723, 761, 799, 839, 879, 921, 963, 1006, 1050, 1095, 1141, 1188,
     1236, 1285, 1336, 1387, 1439, 1493, 1548, 1604, 1661, 1720, 1779, 1840,
     1903, 1967, 2032, 2099, 2167, 2236, 2307, 2380, 2454, 2530, 2608, 2687,
     2768, 2851, 2936, 3022, 3111, 3201, 3293, 3388, 3484, 3583, 3684, 3787,
     3892, 3999, 4109, 4221, 4336, 4454, 4573, 4696, 4821, 4949, 5080, 5214,
     5350, 5490, 5632, 5778, 5927, 6079, 6235, 6394, 6557, 6723, 6893, 7066,
     7243, 7425, 7610, 7799, 7992, 8190, 8392, 8599, 8810, 9025, 9246, 9471,
     9701, 9936, 10177, 10422, 10673, 10930, 11192, 11460, 11734, 12014, 12300, 12593,
     12891, 13197, 13509, 13828, 14154, 14487, 14827, 15175, 15531, 15894, 16266, 16645,
     17033, 17430, 17835, 18249, 18672, 19105, 19546, 19998, 20460, 20932, 21414, 21906,
     22410, 22925, 23451, 23988, 24537, 25099, 25673, 26259, 26858, 27471, 28096, 28736,
     29390, 30058, 30741, 31438, 32151, 32880, 33625, 34386, 35164, 35959, 36772, 37602,
     38451, 39318, 40204, 41110, 42036, 42982, 43949, 44937, 45947, 46979, 48034, 49112,
     50213, 51339, 52490, 53666, 54867, 56096, 57351, 58634, 59944, 61284, 62654, 64053,
     65483, 66945, 68438, 69965, 71525, 73119, 74749, 76414, 78116, 79855, 81632, 83449,
     85306, 87203, 89142, 91124, 93149, 95219, 97334, 99496, 101705, 103963, 106270, 108628,
     111038, 113501, 116019, 118591, 121220, 123907, 126653, 129459, 132327, 135258, 138254, 141315,
     144444, 147641, 150909, 154249, 157662, 161150, 164714, 168357, 172080, 175885, 179774, 183748,
     187810, 191960, 196202, 200538, 204968, 209496, 214124, 218853, 223686, 228626, 233674, 238833,
     244105, 249494, 255000
  >>

\* integer part of log1p(m/1000) / log1p(255) * 255
RECURSIVE LogSearch(_, _, _)
LogSearch(m, lo, hi) ==
  \* greatest k in lo..hi with k = 0 or LOG_EDGE[k] <= m
  IF lo = hi THEN lo
  ELSE LET mid == (lo + hi + 1) \div 2
       IN  IF LOG_EDGE[mid] <= m THEN LogSearch(m, mid, hi)
           ELSE LogSearch(m, lo, mid - 1)

LogByte(r, g, b) == LogSearch(LumMilli(r, g, b), 0, 255)

(***************************************************************************)
(* Decoded images.  data is the flat RGBA byte array of jpeg.decode.       *)
(* The model draws images of one background colour that hold at most one   *)
(* horizontal or vertical run, of at most MaxRun pixels, of a second       *)
(* colour; and the enlargements (each pixel doubled in x and y) of the     *)
(* images as wide as the tuned target, on which it gives stride 2.         *)
(***************************************************************************)
\* colour      linear lum   log-compressed lum
VeryDark == <<5, 3, 1, 255>>        \*   3        67
Dim == <<80, 40, 26, 255>>          \*  50       181
Bright == <<200, 140, 71, 255>>     \* 150       230
Palette == {VeryDark, Dim, Bright}

\* the pixel sets of the runs in a w x h image, the empty run included
Runs(w, h) ==
  {{}} \cup
  UNION { { {y * w + (x + i) : i \in 0..(len - 1)} :
              x \in 0..(w - len), y \in 0..(h - 1) } \cup
          { {(y + i) * w + x : i \in 0..(len - 1)} :
              x \in 0..(w - 1), y \in 0..(h - len) }
          : len \in 1..MaxRun }

MakeImage(w, h, bg, spot, S, zoom) ==
  [width |-> w * zoom, height |-> h * zoom,
   data |-> [i \in 0..(w * zoom * h * zoom * 4 - 1) |->
               LET px == (i \div 4) % (w * zoom)
                   py == (i \div 4) \div (w * zoom)
                   cell == (py \div zoom) * w + (px \div zoom)
               IN  IF cell \in S THEN spot[(i % 4) + 1] ELSE bg[(i % 4) + 1]]]

Images(w, h, zoom) ==
  { MakeImage(w, h, bg, spot, S, zoom) :
      bg \in Palette, spot \in Palette, S \in Runs(w, h) }

(***************************************************************************)
(* Downscale: nearest-neighbour subsampling at an integer stride.          *)
(***************************************************************************)
StepOf(width, target) == Max(1, width \div target)

OutDim(size, step) == size \div step

SrcIdx_nextColumn(x, y, step, width) == ((y * step) * width + ((x + 1) * step)) * 4

SrcIdx(x, y, step, width) == ((y * step) * width + (x * step)) * 4

\* the value a Uint8Array keeps when a read byte (or undefined) is stored
StoreByte(val) == IF val = Undefined THEN 0 ELSE val

\* the luminance byte of a source pixel, per variant
LumOf(v, r, g, b) ==
  IF r = Undefined \/ g = Undefined \/ b = Undefined THEN 0
  ELSE IF v \in ColourVariants THEN LinearByte(r, g, b)
  ELSE LogByte(r, g, b)

Downsample(v, img, target) ==
  LET width == img.width
      height == img.height
      data == img.data
      step == StepOf(width, target)
      outW == OutDim(width, step)
      outH == OutDim(height, step)
      Src(cell) == SrcIdx(cell % outW, cell \div outW, step, width)
      lum == [cell \in 0..(outW * outH - 1) |->
                LumOf(v, ReadAt(data, Src(cell)), ReadAt(data, Src(cell) + 1),
                      ReadAt(data, Src(cell) + 2))]
  IN  [step |-> step, outW |-> outW, outH |-> outH,
       rgba |->
         IF v \in BmpVariants THEN <<>>
         ELSE [i \in 0..(outW * outH * 4 - 1) |->
                 IF v \in ColourVariants
                 THEN StoreByte(ReadAt(data, Src(i \div 4) + (i % 4)))
                 ELSE IF i % 4 = 3 THEN 255 ELSE lum[i \div 4]],
       lumBuf |-> IF v \in GreyPngVariants THEN <<>> ELSE lum]

(***************************************************************************)
(* Disk mask.  centerX = outW/2, centerY = outH/2,                         *)
(* maxRadiusSq = (outW * SOLAR_RADIUS)^2; the test dx*dx + dy*dy >         *)
(* maxRadiusSq is taken times 4*den^2 to stay in the integers.  The two    *)
(* sides are equal only when outW * radNum * 2 / radDen is the root of an  *)
(* integer, which for 0.43 and 0.46 needs outW >= 25.                      *)
(***************************************************************************)
OutsideDisk_byHeight(x, y, outW, outH, c) ==
  ((2 * x - outW) * (2 * x - outW) + (2 * y - outH) * (2 * y - outH))
     * c.radDen * c.radDen
  > 4 * (outH * c.radNum) * (outH * c.radNum)

OutsideDisk(x, y, outW, outH, c) ==
  ((2 * x - outW) * (2 * x - outW) + (2 * y - outH) * (2 * y - outH))
     * c.radDen * c.radDen
  > 4 * (outW * c.radNum) * (outW * c.radNum)

(***************************************************************************)
(* Edge detection.  b holds what the scan reads and writes: rgba, lumBuf    *)
(* (grayPixels in the BMP variants), edgeMask, points, and the loop        *)
(* variables x and y.                                                      *)
(***************************************************************************)
getLumAt(v, b, outW, x, y) ==
  IF v \in GreyPngVariants THEN ReadAt(b.rgba, (y * outW + x) * 4)
  ELSE ReadAt(b.lumBuf, y * outW + x)

IsDark_inclusive(lum, threshold) == lum # Undefined /\ lum <= threshold

IsDark(lum, threshold) == lum # Undefined /\ lum < threshold

IsLit_strict(lum, threshold) == lum # Undefined /\ lum > threshold

IsLit(lum, threshold) == lum # Undefined /\ lum >= threshold

setPixel_nextCell(rgba, outW, x, y, colour) ==
  LET idx == (y * outW + x + 1) * 4
  IN  [rgba EXCEPT ![idx] = colour[1], ![idx + 1] = colour[2],
                   ![idx + 2] = colour[3], ![idx + 3] = 255]

setPixel(rgba, outW, x, y, colour) ==
  LET idx == (y * outW + x) * 4
  IN  [rgba EXCEPT ![idx] = colour[1], ![idx + 1] = colour[2],
                   ![idx + 2] = colour[3], ![idx + 3] = 255]

FlagCell_unpainted(v, b, outW, step, x, y) ==
  LET pushed == [b EXCEPT !.points = Append(@, [x |-> x * step, y |-> y * step])]
  IN  IF v \in LineVariants
        THEN [pushed EXCEPT !.edgeMask = WriteAt(@, y * outW + x, 1)]
      ELSE pushed

FlagCell(v, b, outW, step, x, y) ==
  LET pushed == [b EXCEPT !.points = Append(@, [x |-> x * step, y |-> y * step])]
  IN  IF v \in LineVariants
        THEN [pushed EXCEPT !.edgeMask = WriteAt(@, y * outW + x, 1)]
      ELSE IF v \in BmpVariants THEN pushed
      ELSE [pushed EXCEPT !.rgba = setPixel(@, outW, x, y, CYAN)]

VisitCell(v, c, g, b, x, y) ==
  IF OutsideDisk(x, y, g.outW, g.outH, c) THEN b
  ELSE
    LET lum == getLumAt(v, b, g.outW, x, y)
    IN  IF ~IsDark(lum, c.threshold) THEN b
        ELSE
          LET isEdge ==
                \/ IsLit(getLumAt(v, b, g.outW, x - 1, y), c.threshold)
                \/ IsLit(getLumAt(v, b, g.outW, x + 1, y), c.threshold)
                \/ IsLit(getLumAt(v, b, g.outW, x, y - 1), c.threshold)
                \/ IsLit(getLumAt(v, b, g.outW, x, y + 1), c.threshold)
              b1 == IF isEdge THEN FlagCell(v, b, g.outW, g.step, x, y) ELSE b
          IN  IF v \in BmpVariants
                THEN [b1 EXCEPT !.lumBuf = WriteAt(@, y * g.outW + x, 0)]
              ELSE b1

\* for (y = 1; y < outH - 1; y++) for (x = 1; x < outW - 1; x++)
RECURSIVE ScanFrom(_, _, _, _)
ScanFrom(v, c, g, b) ==
  IF b.y >= g.outH - 1 THEN b
  ELSE IF b.x >= g.outW - 1 THEN ScanFrom(v, c, g, [b EXCEPT !.x = 1, !.y = b.y + 1])
  ELSE ScanFrom(v, c, g, [VisitCell(v, c, g, b, b.x, b.y) EXCEPT !.x = b.x + 1])

DetectEdges(v, c, d) ==
  ScanFrom(v, c, d,
           [rgba |-> d.rgba, lumBuf |-> d.lumBuf,
            edgeMask |-> IF v \in LineVariants THEN Uint8Array(d.outW * d.outH) ELSE <<>>,
            points |-> <<>>, x |-> 1, y |-> 1])

(***************************************************************************)
(* extractContours(edgeMask, w, h).  s holds its locals: the scan position *)
(* (x, y), the current point (cx, cy), visited, contour and contours.      *)
(***************************************************************************)
neighbors_clockwise ==
  << <<0, -1>>, <<1, -1>>, <<1, 0>>, <<1, 1>>,
     <<0, 1>>, <<-1, 1>>, <<-1, 0>>, <<-1, -1>> >>

neighbors ==
  << <<-1, 0>>,    \* W
     <<-1, -1>>,   \* NW
     <<0, -1>>,    \* N
     <<1, -1>>,    \* NE
     <<1, 0>>,     \* E
     <<1, 1>>,     \* SE
     <<0, 1>>,     \* S
     <<-1, 1>> >>  \* SW

ECInit(w, h) ==
  [pc |-> "scan", x |-> 0, y |-> 0, cx |-> 0, cy |-> 0,
   visited |-> Uint8Array(w * h), contour |-> <<>>, contours |-> <<>>,
   chains |-> <<>>]   \* history: every chain walked, kept or not

\* x++ of the inner loop, y++ of the outer one
Advance(s, w) ==
  IF s.x + 1 < w THEN [s EXCEPT !.x = s.x + 1]
  ELSE [s EXCEPT !.x = 0, !.y = s.y + 1]

Skips_ignoresVisited(s, mask, w) ==
  ReadAt(mask, s.y * w + s.x) \in {0, Undefined}

\* if (!edgeMask[idx] || visited[idx]) continue;
Skips(s, mask, w) ==
  LET idx == s.y * w + s.x
  IN  ReadAt(mask, idx) \in {0, Undefined} \/ s.visited[idx] # 0

StartContour_unmarked(s, w) ==
  [s EXCEPT !.pc = "walk", !.cx = s.x, !.cy = s.y,
            !.contour = <<[x |-> s.x, y |-> s.y]>>]

StartContour(s, w) ==
  [s EXCEPT !.pc = "walk", !.cx = s.x, !.cy = s.y,
            !.visited = WriteAt(@, s.y * w + s.x, 1),
            !.contour = <<[x |-> s.x, y |-> s.y]>>]

Free(s, mask, w, h, k) ==
  LET nx == s.cx + neighbors[k][1]
      ny == s.cy + neighbors[k][2]
  IN  /\ ~(nx < 0 \/ nx >= w \/ ny < 0 \/ ny >= h)
      /\ ReadAt(mask, ny * w + nx) \notin {0, Undefined}
      /\ s.visited[ny * w + nx] = 0

\* the first k whose neighbour is inside, flagged and unvisited; 0 if none
RECURSIVE FirstFree(_, _, _, _, _)
FirstFree(s, mask, w, h, k) ==
  IF k > Len(neighbors) THEN 0
  ELSE IF Free(s, mask, w, h, k) THEN k
  ELSE FirstFree(s, mask, w, h, k + 1)

WalkTo(s, w, k) ==
  LET nx == s.cx + neighbors[k][1]
      ny == s.cy + neighbors[k][2]
  IN  [s EXCEPT !.visited = WriteAt(@, ny * w + nx, 1),
                !.contour = Append(@, [x |-> nx, y |-> ny]),
                !.cx = nx, !.cy = ny]

KeepContour_min4(contour) == Len(contour) >= MIN_CONTOUR - 1

KeepContour_min3(contour) == Len(contour) >= MIN_CONTOUR - 2

\* if (contour.length >= 5) contours.push(contour);
KeepContour(contour) == Len(contour) >= MIN_CONTOUR

EndContour(s, w) ==
  Advance([s EXCEPT !.pc = "scan",
                    !.contour = <<>>,
                    !.chains = Append(@, s.contour),
                    !.contours = IF KeepContour(s.contour)
                                   THEN Append(@, s.contour) ELSE @],
          w)

ECStep(s, mask, w, h) ==
  IF s.pc = "scan"
    THEN IF s.y >= h THEN [s EXCEPT !.pc = "done"]
         ELSE IF Skips(s, mask, w) THEN Advance(s, w)
         ELSE StartContour(s, w)
  ELSE IF s.pc = "walk"
    THEN LET k == FirstFree(s, mask, w, h, 1)
         IN  IF k = 0 THEN EndContour(s, w) ELSE WalkTo(s, w, k)
  ELSE s

RECURSIVE ECRun(_, _, _, _)
ECRun(s, mask, w, h) ==
  IF s.pc = "done" THEN s ELSE ECRun(ECStep(s, mask, w, h), mask, w, h)

extractContours(mask, w, h) == ECRun(ECInit(w, h), mask, w, h).contours

(***************************************************************************)
(* Drawing.  drawLine is integer Bresenham stepping; its arguments are     *)
(* contour points, integers, which Math.round leaves as they are.          *)
(***************************************************************************)
setPixelColourSafe_noRightClip(rgba, w, h, x, y, colour) ==
  IF x < 0 \/ y < 0 \/ y >= h THEN rgba
  ELSE LET idx == (y * w + x) * 4
       IN  WriteAt(WriteAt(WriteAt(WriteAt(rgba, idx, colour[1]),
                                   idx + 1, colour[2]),
                           idx + 2, colour[3]),
                   idx + 3, 255)

setPixelColourSafe(rgba, w, h, x, y, colour) ==
  IF x < 0 \/ x >= w \/ y < 0 \/ y >= h THEN rgba
  ELSE setPixel(rgba, w, x, y, colour)

\* the locals of drawLine when it enters while (true); x0 and y0 are the
\* current cell, as in the code
LineInit(rgba, w, h, x0, y0, x1, y1, colour) ==
  [pc |-> "loop", rgba |-> rgba, w |-> w, h |-> h, colour |-> colour,
   x0 |-> x0, y0 |-> y0, x1 |-> x1, y1 |-> y1,
   dx |-> Abs(x1 - x0), dy |-> Abs(y1 - y0),
   sx |-> IF x0 < x1 THEN 1 ELSE -1,
   sy |-> IF y0 < y1 THEN 1 ELSE -1,
   err |-> Abs(x1 - x0) - Abs(y1 - y0),
   start |-> [x |-> x0, y |-> y0],   \* history: the first end point
   trail |-> <<>>]                   \* history: the cells stepped on

\* one iteration of while (true)
LineStep(l) ==
  LET painted == setPixelColourSafe(l.rgba, l.w, l.h, l.x0, l.y0, l.colour)
      here == [x |-> l.x0, y |-> l.y0]
      e2 == 2 * l.err
      movesX == e2 > -l.dy
      movesY == e2 < l.dx
  IN  IF l.x0 = l.x1 /\ l.y0 = l.y1
        THEN [l EXCEPT !.rgba = painted, !.trail = Append(@, here), !.pc = "done"]
      ELSE [l EXCEPT !.rgba = painted, !.trail = Append(@, here),
                     !.err = (IF movesX THEN l.err - l.dy ELSE l.err)
                             + (IF movesY THEN l.dx ELSE 0),
                     !.x0 = IF movesX THEN l.x0 + l.sx ELSE l.x0,
                     !.y0 = IF movesY THEN l.y0 + l.sy ELSE l.y0]

RECURSIVE LineRun(_)
LineRun(l) == IF l.pc = "done" THEN l ELSE LineRun(LineStep(l))

drawLine(rgba, w, h, x0, y0, x1, y1, colour) ==
  LineRun(LineInit(rgba, w, h, x0, y0, x1, y1, colour)).rgba

RECURSIVE DrawContour(_, _, _, _, _)
DrawContour_closed(rgba, w, h, contour, i) ==
  IF i >= Len(contour)
    THEN drawLine(rgba, w, h, contour[Len(contour)].x, contour[Len(contour)].y,
                  contour[1].x, contour[1].y, CYAN)
  ELSE DrawContour(drawLine(rgba, w, h, contour[i].x, contour[i].y,
                            contour[i + 1].x, contour[i + 1].y, CYAN),
                   w, h, contour, i + 1)

\* for (let i = 1; i < contour.length; i++) drawLine(p[i-1], p[i])
DrawContour(rgba, w, h, contour, i) ==
  IF i >= Len(contour) THEN rgba
  ELSE DrawContour(drawLine(rgba, w, h, contour[i].x, contour[i].y,
                            contour[i + 1].x, contour[i + 1].y, CYAN),
                   w, h, contour, i + 1)

RECURSIVE DrawContours(_, _, _, _, _)
DrawContours(rgba, w, h, contours, n) ==
  IF n > Len(contours) THEN rgba
  ELSE DrawContours(DrawContour(rgba, w, h, contours[n], 1), w, h, contours, n + 1)

ScaleContours_unscaled(contours, step) == contours

\* contours.map(contour => contour.map(p => ({x: p.x * step, y: p.y * step})))
ScaleContours(contours, step) ==
  [n \in 1..Len(contours) |->
     [i \in 1..Len(contours[n]) |->
        [x |-> contours[n][i].x * step, y |-> contours[n][i].y * step]]]

(***************************************************************************)
(* The synchronous part of a handler between decoding and encoding.        *)
(* base is the downsampled buffer before detection touches it, preview     *)
(* the buffer handed to the encoder.                                       *)
(***************************************************************************)
Analyse(v, c, img) ==
  LET d == Downsample(v, img, c.target)
      det == DetectEdges(v, c, d)
      contours == IF v \in LineVariants
                    THEN extractContours(det.edgeMask, d.outW, d.outH)
                  ELSE <<>>
      drawn == IF v \in LineVariants
                 THEN DrawContours(det.rgba, d.outW, d.outH, contours, 1)
               ELSE det.rgba
  IN  [width |-> img.width, height |-> img.height,
       step |-> d.step, outW |-> d.outW, outH |-> d.outH,
       base |-> IF v \in BmpVariants THEN d.lumBuf ELSE d.rgba,
       lum |-> [i \in 0..(d.outW * d.outH - 1) |->
                  IF v \in GreyPngVariants THEN d.rgba[i * 4] ELSE d.lumBuf[i]],
       preview |-> IF v \in BmpVariants THEN det.lumBuf ELSE drawn,
       points |-> det.points,
       edgeMask |-> det.edgeMask,
       contours |-> contours,
       contoursScaled |-> ScaleContours(contours, d.step)]

(***************************************************************************)
(* Encoders and responses.                                                 *)
(***************************************************************************)
\* UPNG.encode([rgba.buffer], outW, outH, 0): an external, lossless encoder
EncodePng(rgba, w, h) == [format |-> "png", width |-> w, height |-> h, frames |-> <<rgba>>]

encodeBMP(pixels, w, h) ==
  LET rowSize == w * 3
      paddedRowSize == ((rowSize + 3) \div 4) * 4
      fileSize == 54 + paddedRowSize * h
  IN  [format |-> "bmp", fileSize |-> fileSize, offset |-> 54, width |-> w,
       height |-> -h, planes |-> 1, bits |-> 24,
       data |-> [pos \in 0..(paddedRowSize * h - 1) |->
                   IF pos % paddedRowSize < rowSize
                     THEN pixels[(pos \div paddedRowSize) * w + (pos % paddedRowSize) \div 3]
                   ELSE 0]]

Encode(v, a) ==
  IF v \in BmpVariants THEN encodeBMP(a.preview, a.outW, a.outH)
  ELSE EncodePng(a.preview, a.outW, a.outH)

\* `data:image/png;base64,${base64}`
DataUri(v, encoded) ==
  [mime |-> IF v \in BmpVariants THEN "image/bmp" ELSE "image/png",
   base64 |-> encoded]

IMAGE_URL == "https://suntoday.lmsal.com/sdomedia/SunInTime/2025/12/11/f0193.jpg"

Statuses == {200, 404, 503}

StatusText(st) == IF st = 200 THEN "OK" ELSE IF st = 404 THEN "Not Found" ELSE "Service Unavailable"

\* the Response a settled fetch() resolves to
Upstream(st) ==
  [ok |-> st \in 200..299, status |-> st, statusText |-> StatusText(st), url |-> IMAGE_URL]

JsonResponse(code, body) ==
  [kind |-> "response", status |-> code, contentType |-> "application/json", body |-> body]

\* an error thrown inside fetch(request, env, ctx): variants 1-3 catch it and
\* answer 500; variants 4-6 have no try around it, so it leaves the handler
Thrown(v, e) ==
  IF v \in CatchAllVariants
    THEN JsonResponse(500, [status |-> "error", message |-> "Worker threw exception",
                            error |-> e.message])
  ELSE [kind |-> "exception", error |-> e]

FetchFailed_noStatus(v, r) ==
  IF v \in CatchAllVariants
    THEN Thrown(v, [name |-> "Error", message |-> [text |-> "Failed to fetch JPEG"]])
  ELSE JsonResponse(502, [status |-> "error", message |-> "Failed to fetch JPEG",
                         url |-> r.url])

\* if (!resp.ok) ...
FetchFailed(v, r) ==
  IF v \in CatchAllVariants
    THEN Thrown(v, [name |-> "Error",
                    \* `Failed to fetch JPEG: ${status} ${statusText} (${IMAGE_URL})`
                    message |-> [text |-> "Failed to fetch JPEG: ", status |-> r.status,
                                 statusText |-> r.statusText, url |-> IMAGE_URL]])
  ELSE JsonResponse(502, [status |-> "error",
                         message |-> IF v = 6 THEN "Failed to fetch upstream JPEG"
                                     ELSE "Failed to fetch JPEG",
                         upstream_status |-> r.status,
                         upstream_status_text |-> r.statusText,
                         url |-> r.url])

\* jpeg.decode threw e
DecodeFailed(v, e) ==
  IF v \in CatchAllVariants THEN Thrown(v, e)
  ELSE JsonResponse(500, [status |-> "error",
                         message |-> IF v = 6 THEN "jpeg-js decode failed"
                                     ELSE "Failed to decode JPEG",
                         error |-> e.message])

NetworkError == [name |-> "TypeError", message |-> "fetch failed"]
BodyError == [name |-> "TypeError", message |-> "body stream failed"]
DecodeError == [name |-> "Error", message |-> "SOI not found"]
EncodeError == [name |-> "Error", message |-> "encode failed"]

Succeeded(v, p, r, a) ==
  LET encoded == Encode(v, a)
  IN  IF v \in CatchAllVariants /\ p = "/img"
        THEN [kind |-> "response", status |-> 200, contentType |-> "image/png",
              body |-> encoded]
      ELSE IF v = 1
        THEN JsonResponse(200,
               [status |-> "success", source |-> r.url,
                original_dimensions |-> [width |-> a.width, height |-> a.height],
                processed_dimensions |-> [width |-> a.outW, height |-> a.outH, step |-> a.step],
                polygon_count |-> Len(a.points),
                coronal_holes_polygons |-> a.points,
                contours_scaled |-> a.contoursScaled,
                image_data |-> DataUri(v, encoded)])
      ELSE IF v \in BmpVariants
        THEN JsonResponse(200,
               [status |-> "success", source |-> r.url,
                original_dimensions |-> [w |-> a.width, h |-> a.height],
                analysis_grid |-> [w |-> a.outW, h |-> a.outH, step |-> a.step],
                coronal_holes_polygons |-> a.points,
                image_data |-> DataUri(v, encoded)])
      ELSE JsonResponse(200,
               [status |-> "success", source |-> r.url,
                original_dimensions |-> [width |-> a.width, height |-> a.height],
                processed_dimensions |-> [width |-> a.outW, height |-> a.outH, step |-> a.step],
                polygon_count |-> Len(a.points),
                coronal_holes_polygons |-> a.points,
                image_data |-> DataUri(v, encoded)])

(***************************************************************************)
(* Spec: one request through the handler of a variant.  The handler runs   *)
(* to its first await (fetch), resumes when the fetch settles, awaits the  *)
(* body, and then runs synchronously to its response.                      *)
(***************************************************************************)
HandlerImages == Images(3, 3, 1)

Paths(v) == IF v \in CatchAllVariants THEN {"/", "/img"} ELSE {"/"}

Init ==
  /\ variant \in Variants
  /\ cfg \in Cfgs(variant)
  /\ path \in Paths(variant)
  /\ pc = "start"
  /\ resp = NoValue /\ fetchCount = 0 /\ decodeCount = 0
  /\ decoded = NoValue /\ analysis = NoValue /\ response = NoValue
  /\ edgeMask = <<>> /\ maskW = 0 /\ maskH = 0 /\ ec = NoValue
  /\ srcW = 1 /\ srcH = 0 /\ down = NoValue
  /\ line = NoValue /\ reqs = NoValue

\* const resp = await fetch(IMAGE_URL, ...)
CallFetch ==
  /\ pc = "start"
  /\ pc' = "awaitFetch"
  /\ fetchCount' = fetchCount + 1
  /\ UNCHANGED <<variant, cfg, path, resp, decodeCount, decoded, analysis,
                 response, contourVars, downVars, lineVars, reqVars>>

\* the fetch promise rejects (network failure)
FetchRejects ==
  /\ pc = "awaitFetch"
  /\ pc' = "done"
  /\ response' = Thrown(variant, NetworkError)
  /\ UNCHANGED <<variant, cfg, path, resp, fetchCount, decodeCount, decoded,
                 analysis, contourVars, downVars, lineVars, reqVars>>

\* the fetch promise resolves with a non-2xx status
FetchNotOk ==
  /\ pc = "awaitFetch"
  /\ \E st \in Statuses :
       /\ ~Upstream(st).ok
       /\ resp' = Upstream(st)
       /\ response' = FetchFailed(variant, Upstream(st))
  /\ pc' = "done"
  /\ UNCHANGED <<variant, cfg, path, fetchCount, decodeCount, decoded,
                 analysis, contourVars, downVars, lineVars, reqVars>>

\* the fetch promise resolves with a 2xx status: await resp.arrayBuffer()
FetchOk ==
  /\ pc = "awaitFetch"
  /\ \E st \in Statuses :
       /\ Upstream(st).ok
       /\ resp' = Upstream(st)
  /\ pc' = "awaitBody"
  /\ UNCHANGED <<variant, cfg, path, fetchCount, decodeCount, decoded,
                 analysis, response, contourVars, downVars, lineVars, reqVars>>

\* the body promise rejects
BodyRejects ==
  /\ pc = "awaitBody"
  /\ pc' = "done"
  /\ response' = Thrown(variant, BodyError)
  /\ UNCHANGED <<variant, cfg, path, resp, fetchCount, decodeCount, decoded,
                 analysis, contourVars, downVars, lineVars, reqVars>>

\* the body arrives and jpeg.decode throws
DecodeThrows ==
  /\ pc = "awaitBody"
  /\ pc' = "done"
  /\ decodeCount' = decodeCount + 1
  /\ response' = DecodeFailed(variant, DecodeError)
  /\ UNCHANGED <<variant, cfg, path, resp, fetchCount, decoded, analysis,
                 contourVars, downVars, lineVars, reqVars>>

\* the body arrives, the image is analysed and UPNG.encode throws
EncodeThrows ==
  /\ pc = "awaitBody"
  /\ variant \notin BmpVariants
  /\ pc' = "done"
  /\ decodeCount' = decodeCount + 1
  /\ response' = Thrown(variant, EncodeError)
  /\ UNCHANGED <<variant, cfg, path, resp, fetchCount, decoded, analysis,
                 contourVars, downVars, lineVars, reqVars>>

\* the body arrives, the image is decoded, analysed, encoded and returned
Respond ==
  /\ pc = "awaitBody"
  /\ pc' = "done"
  /\ decodeCount' = decodeCount + 1
  /\ \E img \in HandlerImages :
       /\ decoded' = img
       /\ analysis' = Analyse(variant, cfg, img)
       /\ response' = Succeeded(variant, path, resp, Analyse(variant, cfg, img))
  /\ UNCHANGED <<variant, cfg, path, resp, fetchCount, contourVars, downVars, lineVars, reqVars>>

Next ==
  \/ CallFetch
  \/ FetchRejects
  \/ FetchNotOk
  \/ FetchOk
  \/ BodyRejects
  \/ DecodeThrows
  \/ EncodeThrows
  \/ Respond

Spec == Init /\ [][Next]_vars

\* ---- vocabulary of the handler claims ----
Done == pc = "done"

IsSuccess(rsp) ==
  /\ rsp.kind = "response" /\ rsp.status \in 200..299
  /\ rsp.contentType = "application/json" => rsp.body.status = "success"

IsStructuredError(rsp) ==
  /\ rsp.kind = "response" /\ rsp.status \notin 200..299
  /\ rsp.contentType = "application/json" /\ rsp.body.status = "error"

CarriesUpstreamStatus(rsp, st) ==
  IF "upstream_status" \in DOMAIN rsp.body THEN rsp.body.upstream_status = st
  ELSE /\ "error" \in DOMAIN rsp.body
       /\ "status" \in DOMAIN rsp.body.error
       /\ rsp.body.error.status = st

\* C9: when the upstream answers non-2xx the request is over: the response is
\* an error that carries the upstream status, the decoder was never called,
\* nothing was analysed and fetch was called exactly once.
C9_FailFast ==
  (resp # NoValue /\ ~resp.ok) =>
    /\ Done
    /\ IsStructuredError(response)
    /\ CarriesUpstreamStatus(response, resp.status)
    /\ decodeCount = 0 /\ decoded = NoValue /\ analysis = NoValue
    /\ fetchCount = 1

C9_Witness ==
  /\ Done /\ resp # NoValue /\ resp.status = 503
  /\ response.kind = "response" /\ response.status = 502
  /\ response.body.upstream_status = 503

\* C10 as stated: a request that did not succeed ended in a JSON response
\* with status "error" and a non-2xx code; no exception leaves the handler.
C10_StructuredFailure ==
  (Done /\ ~IsSuccess(response)) => IsStructuredError(response)

(***************************************************************************)
(* SpecPipeline: the analysis of one decoded image by one variant.         *)
(***************************************************************************)
\* the enlarged images are decoded under the tuned setting only: under the
\* program's target they are analysed at stride 1 like the plain ones
DecodedImages(c) ==
  UNION { Images(wh[1], wh[2], 1) : wh \in (1..MaxWidth) \X (1..MaxHeight) }
  \cup (IF c = TunedCfg THEN Images(c.target, c.target, 2) ELSE {})

InitPipeline ==
  /\ variant \in Variants
  /\ cfg \in Cfgs(variant)
  /\ path = "/" /\ pc = "awaitBody"
  /\ resp = NoValue /\ fetchCount = 1 /\ decodeCount = 0
  /\ decoded = NoValue /\ analysis = NoValue /\ response = NoValue
  /\ edgeMask = <<>> /\ maskW = 0 /\ maskH = 0 /\ ec = NoValue
  /\ srcW = 1 /\ srcH = 0 /\ down = NoValue
  /\ line = NoValue /\ reqs = NoValue

DecodeAndAnalyse ==
  /\ decoded = NoValue
  /\ \E img \in DecodedImages(cfg) :
       /\ decoded' = img
       /\ analysis' = Analyse(variant, cfg, img)
  /\ decodeCount' = decodeCount + 1
  /\ UNCHANGED <<variant, cfg, path, pc, resp, fetchCount, response,
                 contourVars, downVars, lineVars, reqVars>>

NextPipeline == DecodeAndAnalyse

SpecPipeline == InitPipeline /\ [][NextPipeline]_vars

\* ---- vocabulary of the detector claims ----
Analysed == analysis # NoValue

GridCells(a) == {[x |-> x, y |-> y] : x \in 0..(a.outW - 1), y \in 0..(a.outH - 1)}

LumAt(a, x, y) == a.lum[y * a.outW + x]

\* cell (x, y) is reported in the point list (and set in the edge mask)
IsFlagged(v, a, x, y) ==
  /\ \E i \in 1..Len(a.points) : a.points[i] = [x |-> x * a.step, y |-> y * a.step]
  /\ v \in LineVariants => a.edgeMask[y * a.outW + x] = 1

Interior(a, x, y) == 1 <= x /\ x < a.outW - 1 /\ 1 <= y /\ y < a.outH - 1

\* (x - outW/2)^2 + (y - outH/2)^2 <= (outW * F)^2, times 4 * radDen^2
InDisk(a, c, x, y) ==
  c.radDen * c.radDen *
    ((2 * x - a.outW) * (2 * x - a.outW) + (2 * y - a.outH) * (2 * y - a.outH))
  <= 4 * a.outW * a.outW * c.radNum * c.radNum

HasLitNeighbour(a, t, x, y) ==
  \/ LumAt(a, x - 1, y) >= t
  \/ LumAt(a, x + 1, y) >= t
  \/ LumAt(a, x, y - 1) >= t
  \/ LumAt(a, x, y + 1) >= t

CompareThresholds == {CH_THRESHOLD(v) : v \in Variants} \cup {TunedCfg.threshold}

\* the point list the variant computes from the decoded image with threshold t
PointsWith(t) ==
  DetectEdges(variant, [cfg EXCEPT !.threshold = t],
              Downsample(variant, decoded, cfg.target)).points

\* C3 as stated: with a threshold t >= the one used, at least as many cells
\* are flagged.
C3_CountMonotone ==
  Analysed =>
    \A t \in CompareThresholds :
      t >= cfg.threshold => Len(PointsWith(t)) >= Len(analysis.points)

\* C3 amended: every flagged cell is dark (luminance below the threshold), and
\* with any threshold t >= the one used it is either still flagged or has no
\* 4-neighbour of luminance >= t left (it became interior to a dark region);
\* the number of flagged cells itself may drop.
C3_DarkMonotone ==
  (Analysed /\ Len(analysis.points) > 0) =>
    \A t \in {u \in CompareThresholds : u >= cfg.threshold} :
      LET higher == PointsWith(t)
          still == {higher[j] : j \in 1..Len(higher)}
      IN  \A i \in 1..Len(analysis.points) :
            LET x == analysis.points[i].x \div analysis.step
                y == analysis.points[i].y \div analysis.step
            IN  /\ LumAt(analysis, x, y) < cfg.threshold
                /\ LumAt(analysis, x, y) < t
                /\ \/ analysis.points[i] \in still
                   \/ ~HasLitNeighbour(analysis, t, x, y)

\* a run in which a higher threshold flags fewer cells
C3_Witness ==
  /\ Analysed
  /\ Len(analysis.points) >= 2
  /\ \E t \in CompareThresholds :
       t > cfg.threshold /\ Len(PointsWith(t)) < Len(analysis.points)

\* C4: a cell is flagged iff it is interior, in-disk, darker than the
\* threshold and has a 4-neighbour of luminance >= threshold; on the 4x4 grid
\* of value 50 with 150 at (2,2), threshold 100 and radius fraction 1, the
\* flagged cells are (2,1) and (1,2).
C4_FlaggedIff ==
  Analysed =>
    /\ \A p \in GridCells(analysis) :
         IsFlagged(variant, analysis, p.x, p.y) <=>
           /\ Interior(analysis, p.x, p.y)
           /\ InDisk(analysis, cfg, p.x, p.y)
           /\ LumAt(analysis, p.x, p.y) < cfg.threshold
           /\ HasLitNeighbour(analysis, cfg.threshold, p.x, p.y)
    /\ ( /\ analysis.outW = 4 /\ analysis.outH = 4
         /\ cfg.threshold = 100 /\ cfg.radNum = cfg.radDen
         /\ \A p \in GridCells(analysis) :
              LumAt(analysis, p.x, p.y) = IF p.x = 2 /\ p.y = 2 THEN 150 ELSE 50 )
       => {p \in GridCells(analysis) : IsFlagged(variant, analysis, p.x, p.y)}
            = {[x |-> 2, y |-> 1], [x |-> 1, y |-> 2]}

C4_Witness ==
  /\ Analysed
  /\ analysis.outW = 4 /\ analysis.outH = 4
  /\ cfg.threshold = 100 /\ cfg.radNum = cfg.radDen
  /\ \A p \in GridCells(analysis) :
       LumAt(analysis, p.x, p.y) = IF p.x = 2 /\ p.y = 2 THEN 150 ELSE 50
  /\ analysis.points = <<[x |-> 2, y |-> 1], [x |-> 1, y |-> 2]>>

\* C5: no cell with (x - outW/2)^2 + (y - outH/2)^2 > (outW * F)^2 is flagged
\* or reported in the point list, whatever its luminance.
C5_DiskContainment ==
  Analysed =>
    /\ \A p \in GridCells(analysis) :
         (cfg.radDen * cfg.radDen *
            ((2 * p.x - analysis.outW) * (2 * p.x - analysis.outW)
             + (2 * p.y - analysis.outH) * (2 * p.y - analysis.outH))
          > 4 * analysis.outW * analysis.outW * cfg.radNum * cfg.radNum)
         => /\ \A i \in 1..Len(analysis.points) :
                 analysis.points[i] # [x |-> p.x * analysis.step, y |-> p.y * analysis.step]
            /\ variant \in LineVariants => analysis.edgeMask[p.y * analysis.outW + p.x] = 0
    /\ \A i \in 1..Len(analysis.points) :
         \E p \in GridCells(analysis) :
           analysis.points[i] = [x |-> p.x * analysis.step, y |-> p.y * analysis.step]

\* a taller-than-wide grid with a dark interior cell that has a lit neighbour
\* and lies outside the disk, next to a flagged cell inside it
C5_Witness ==
  /\ Analysed
  /\ analysis.outH > analysis.outW
  /\ Len(analysis.points) >= 1
  /\ \E p \in GridCells(analysis) :
       /\ Interior(analysis, p.x, p.y)
       /\ ~InDisk(analysis, cfg, p.x, p.y)
       /\ LumAt(analysis, p.x, p.y) < cfg.threshold
       /\ HasLitNeighbour(analysis, cfg.threshold, p.x, p.y)
       /\ ~IsFlagged(variant, analysis, p.x, p.y)

OnGrid(a, q) ==
  /\ q.x % a.step = 0 /\ q.y % a.step = 0
  /\ 0 <= q.x \div a.step /\ q.x \div a.step < a.outW
  /\ 0 <= q.y \div a.step /\ q.y \div a.step < a.outH

\* C8: every coordinate of the point list and of the scaled contours is a
\* multiple of step whose quotient lies on the analysis grid, and a scaled
\* contour divided by step is the analysis-grid contour that was drawn.
C8_RoundTrip ==
  Analysed =>
    /\ \A i \in 1..Len(analysis.points) : OnGrid(analysis, analysis.points[i])
    /\ Len(analysis.contoursScaled) = Len(analysis.contours)
    /\ \A n \in 1..Len(analysis.contoursScaled) :
         /\ Len(analysis.contoursScaled[n]) = Len(analysis.contours[n])
         /\ \A i \in 1..Len(analysis.contoursScaled[n]) :
              LET q == analysis.contoursScaled[n][i]
              IN  /\ OnGrid(analysis, q)
                  /\ [x |-> q.x \div analysis.step, y |-> q.y \div analysis.step]
                       = analysis.contours[n][i]
                  /\ \A ch \in 0..3 :
                       analysis.preview[((q.y \div analysis.step) * analysis.outW
                                         + q.x \div analysis.step) * 4 + ch]
                         = <<0, 255, 255, 255>>[ch + 1]

C8_Witness ==
  /\ Analysed
  /\ analysis.step = 2
  /\ Len(analysis.points) >= 5
  /\ Len(analysis.contoursScaled) >= 1
  /\ \E i \in 1..Len(analysis.contoursScaled[1]) :
       analysis.contoursScaled[1][i].x # analysis.contours[1][i].x

(***************************************************************************)
(* SpecContours: extractContours run one loop step at a time on every      *)
(* mask of up to MaxMaskW x MaxMaskH cells.                                *)
(***************************************************************************)
Masks(w, h) == [0..(w * h - 1) -> {0, 1}]

InitContours ==
  /\ maskW \in 1..MaxMaskW
  /\ maskH \in 1..MaxMaskH
  /\ edgeMask \in Masks(maskW, maskH)
  /\ ec = ECInit(maskW, maskH)
  /\ variant = 1 /\ cfg = ProgramCfg(1) /\ path = "/" /\ pc = "idle"
  /\ resp = NoValue /\ fetchCount = 0 /\ decodeCount = 0
  /\ decoded = NoValue /\ analysis = NoValue /\ response = NoValue
  /\ srcW = 1 /\ srcH = 0 /\ down = NoValue
  /\ line = NoValue /\ reqs = NoValue

ScanSkip ==
  /\ ec.pc = "scan" /\ ec.y < maskH
  /\ Skips(ec, edgeMask, maskW)
  /\ ec' = ECStep(ec, edgeMask, maskW, maskH)
  /\ UNCHANGED <<edgeMask, maskW, maskH, handlerVars, downVars, lineVars, reqVars>>

ContourStart ==
  /\ ec.pc = "scan" /\ ec.y < maskH
  /\ ~Skips(ec, edgeMask, maskW)
  /\ ec' = ECStep(ec, edgeMask, maskW, maskH)
  /\ UNCHANGED <<edgeMask, maskW, maskH, handlerVars, downVars, lineVars, reqVars>>

WalkStep ==
  /\ ec.pc = "walk"
  /\ FirstFree(ec, edgeMask, maskW, maskH, 1) # 0
  /\ ec' = ECStep(ec, edgeMask, maskW, maskH)
  /\ UNCHANGED <<edgeMask, maskW, maskH, handlerVars, downVars, lineVars, reqVars>>

WalkEnd ==
  /\ ec.pc = "walk"
  /\ FirstFree(ec, edgeMask, maskW, maskH, 1) = 0
  /\ ec' = ECStep(ec, edgeMask, maskW, maskH)
  /\ UNCHANGED <<edgeMask, maskW, maskH, handlerVars, downVars, lineVars, reqVars>>

ContoursReturn ==
  /\ ec.pc = "scan" /\ ec.y >= maskH
  /\ ec' = ECStep(ec, edgeMask, maskW, maskH)
  /\ UNCHANGED <<edgeMask, maskW, maskH, handlerVars, downVars, lineVars, reqVars>>

NextContours ==
  \/ ScanSkip
  \/ ContourStart
  \/ WalkStep
  \/ WalkEnd
  \/ ContoursReturn

SpecContours == InitContours /\ [][NextContours]_vars

\* ---- vocabulary of the contour claims ----
Cell(w, i) == [x |-> i % w, y |-> i \div w]

FlaggedCells(mask, w) == {Cell(w, i) : i \in {j \in DOMAIN mask : mask[j] # 0}}

PointsOf(contour) == {contour[i] : i \in 1..Len(contour)}

Adjacent8(p, q) == p # q /\ Abs(p.x - q.x) <= 1 /\ Abs(p.y - q.y) <= 1

\* the 8-connected component of cell p among the cells F
Component(F, p) ==
  LET RECURSIVE Closure(_)
      Closure(S) ==
        LET T == S \cup {q \in F : \E r \in S : Adjacent8(q, r)}
        IN  IF T = S THEN S ELSE Closure(T)
  IN  Closure({p})

\* number of places (contour, position) at which cell p occurs in cs
Occurrences(cs, p) ==
  Cardinality(UNION { { <<i, j>> : j \in {k \in 1..Len(cs[i]) : cs[i][k] = p} }
                      : i \in 1..Len(cs) })

ContourDone == ec.pc = "done"

C2_ComponentCovered ==
  ContourDone =>
    \A p \in FlaggedCells(edgeMask, maskW) :
      Occurrences(ec.contours, p) =
        IF Cardinality(Component(FlaggedCells(edgeMask, maskW), p)) < 5 THEN 0 ELSE 1

\* C2 amended: every flagged cell lies in exactly one walked chain, at one
\* position; it is in a returned contour (exactly one) iff that chain has 5
\* or more points, and never when its component has fewer than 5 members.
C2_ChainCovered ==
  ContourDone =>
    \A p \in FlaggedCells(edgeMask, maskW) :
      /\ Occurrences(ec.chains, p) = 1
      /\ \A i \in 1..Len(ec.chains) :
           p \in PointsOf(ec.chains[i]) =>
             Occurrences(ec.contours, p) = IF Len(ec.chains[i]) >= 5 THEN 1 ELSE 0
      /\ Cardinality(Component(FlaggedCells(edgeMask, maskW), p)) < 5
           => Occurrences(ec.contours, p) = 0

\* a component of 5 or more cells, one of whose cells was dropped
C2_Witness ==
  /\ ContourDone
  /\ \E p \in FlaggedCells(edgeMask, maskW) :
       /\ Cardinality(Component(FlaggedCells(edgeMask, maskW), p)) >= 5
       /\ Occurrences(ec.contours, p) = 0
       /\ \E q \in Component(FlaggedCells(edgeMask, maskW), p) :
            Occurrences(ec.contours, q) = 1

(***************************************************************************)
(* SpecDown: the downscale arithmetic on source sizes up to MaxSrcW x      *)
(* MaxSrcH, for the program's target size and two smaller ones.            *)
(***************************************************************************)
Targets == {1, TunedCfg.target, TARGET_SIZE}

InitDown ==
  /\ srcW \in 1..MaxSrcW
  /\ srcH \in 0..MaxSrcH
  /\ down = NoValue
  /\ variant = 1 /\ cfg = ProgramCfg(1) /\ path = "/" /\ pc = "idle"
  /\ resp = NoValue /\ fetchCount = 0 /\ decodeCount = 0
  /\ decoded = NoValue /\ analysis = NoValue /\ response = NoValue
  /\ edgeMask = <<>> /\ maskW = 0 /\ maskH = 0 /\ ec = NoValue
  /\ line = NoValue /\ reqs = NoValue

\* const step = ...; const outW = ...; const outH = ...;
Downscale ==
  /\ down = NoValue
  /\ \E target \in Targets :
       LET step == StepOf(srcW, target)
       IN  down' = [target |-> target, step |-> step,
                    outW |-> OutDim(srcW, step), outH |-> OutDim(srcH, step)]
  /\ UNCHANGED <<srcW, srcH, handlerVars, contourVars,
                 lineVars, reqVars>>

\* the loops over the output cells read the source at SrcIdx .. SrcIdx + 3
ReadSamples ==
  /\ down # NoValue /\ "last" \notin DOMAIN down
  /\ down' = [target |-> down.target, step |-> down.step,
              outW |-> down.outW, outH |-> down.outH,
              last |-> IF down.outW * down.outH = 0 THEN Undefined
                       ELSE SrcIdx(down.outW - 1, down.outH - 1, down.step, srcW) + 3]
  /\ UNCHANGED <<srcW, srcH, handlerVars, contourVars,
                 lineVars, reqVars>>

NextDown ==
  \/ Downscale
  \/ ReadSamples

SpecDown == InitDown /\ [][NextDown]_vars

Downscaled == down # NoValue

\* C6: step >= 1, the output is no larger than the source, step = 1 when the
\* source is narrower than the target, every sampled source cell lies inside
\* the source image and every read index is below W0 * H0 * 4; a source
\* 2000 wide with target 512 gives step 3 and outW 666.
C6_DownscaleBounds ==
  Downscaled =>
    /\ down.step >= 1
    /\ down.outW = srcW \div down.step /\ down.outW <= srcW
    /\ down.outH = srcH \div down.step /\ down.outH <= srcH
    /\ (srcW < down.target => down.step = 1)
    /\ \A x \in 0..(down.outW - 1) : \A y \in 0..(down.outH - 1) :
         /\ x * down.step < srcW /\ y * down.step < srcH
         /\ SrcIdx(x, y, down.step, srcW) = ((y * down.step) * srcW + x * down.step) * 4
         /\ SrcIdx(x, y, down.step, srcW) + 3 < srcW * srcH * 4
    /\ (srcW = 2000 /\ down.target = 512 => down.step = 3 /\ down.outW = 666)

C6_Witness ==
  /\ Downscaled
  /\ srcW = 2000 /\ srcH = 3 /\ down.target = 512
  /\ down.step = 3 /\ down.outW = 666 /\ down.outH = 1
  /\ "last" \in DOMAIN down /\ down.last = 7983

\* C7 as stated: the analysis width never exceeds TARGET_SIZE.
C7_WidthWithinTarget ==
  (Downscaled /\ down.target = TARGET_SIZE) => down.outW <= TARGET_SIZE

(***************************************************************************)
(* SpecOverlay: the analysis, by every variant, of images that hold any    *)
(* set of up to MaxDark interior cells of one darker colour on a bright    *)
(* background (5 x 5, and enlarged to 10 x 10 for stride 2), and of the    *)
(* 8 x 8 images that hold two separate diagonal chains of three dark       *)
(* cells.  Besides each variant's own constants and the tuned setting the  *)
(* detector is run with threshold 1.                                       *)
(***************************************************************************)
Black == <<0, 0, 0, 255>>           \* luminance 0, linear and compressed

LowCfg == [TunedCfg EXCEPT !.threshold = 1]

OverlayCfgs(v) == Cfgs(v) \cup {LowCfg}

InteriorCells(w, h) == {y * w + x : x \in 1..(w - 2), y \in 1..(h - 2)}

DarkSets(w, h) == {S \in SUBSET InteriorCells(w, h) : Cardinality(S) <= MaxDark}

SpotImages(zoom) ==
  { MakeImage(TunedCfg.target, TunedCfg.target, Bright, spot, S, zoom) :
      spot \in {Black, VeryDark, Dim},
      S \in DarkSets(TunedCfg.target, TunedCfg.target) }

\* the cells (x, y), (x + d, y + 1), (x + 2d, y + 2) of an 8 x 8 image
DiagonalCells(x, y, d) == {(y + i) * 8 + (x + i * d) : i \in 0..2}

DiagonalChains ==
  { DiagonalCells(x, y, d) : x \in {3, 4}, y \in 1..4, d \in {-1, 1} }
  \cup { DiagonalCells(x, y, 1) : x \in {1, 2}, y \in 1..4 }
  \cup { DiagonalCells(x, y, -1) : x \in {5, 6}, y \in 1..4 }

\* no cell of A touches a cell of B, not even at a corner
Apart(A, B) ==
  \A a \in A : \A b \in B :
    Abs((a % 8) - (b % 8)) > 1 \/ Abs((a \div 8) - (b \div 8)) > 1

DiagonalImages ==
  { MakeImage(8, 8, Bright, VeryDark, AB[1] \cup AB[2], 1) :
      AB \in {X \in DiagonalChains \X DiagonalChains : Apart(X[1], X[2])} }

OverlayImages(c) ==
  SpotImages(1) \cup DiagonalImages
  \cup (IF c = TunedCfg THEN SpotImages(2) ELSE {})

InitOverlay ==
  /\ variant \in Variants
  /\ cfg \in OverlayCfgs(variant)
  /\ path = "/" /\ pc = "awaitBody"
  /\ resp = NoValue /\ fetchCount = 1 /\ decodeCount = 0
  /\ decoded = NoValue /\ analysis = NoValue /\ response = NoValue
  /\ edgeMask = <<>> /\ maskW = 0 /\ maskH = 0 /\ ec = NoValue
  /\ srcW = 1 /\ srcH = 0 /\ down = NoValue
  /\ line = NoValue /\ reqs = NoValue

\* decode, downscale, detect, trace, draw: everything up to the encoder
AnalyseOverlay ==
  /\ decoded = NoValue
  /\ \E img \in OverlayImages(cfg) :
       /\ decoded' = img
       /\ analysis' = Analyse(variant, cfg, img)
  /\ decodeCount' = decodeCount + 1
  /\ UNCHANGED <<variant, cfg, path, pc, resp, fetchCount, response,
                 contourVars, downVars, lineVars, reqVars>>

NextOverlay == AnalyseOverlay

SpecOverlay == InitOverlay /\ [][NextOverlay]_vars

\* ---- vocabulary of the overlay claims ----
\* the analysis-grid cells named by the point list
PointCells(a) ==
  {[x |-> a.points[i].x \div a.step, y |-> a.points[i].y \div a.step] :
     i \in 1..Len(a.points)}

ContourCells(a) == UNION {PointsOf(a.contours[n]) : n \in 1..Len(a.contours)}

\* three cells, each one row below and one column beside the one before
IsDiagonalChain(S) ==
  \E c \in S : \E d \in {-1, 1} :
    S = {[x |-> c.x + i * d, y |-> c.y + i] : i \in 0..2}

\* F is two diagonal chains of three cells that do not touch
TwoDiagonalChains(F) ==
  /\ Cardinality(F) = 6
  /\ \E A \in SUBSET F :
       /\ IsDiagonalChain(A) /\ IsDiagonalChain(F \ A)
       /\ \A p \in A : \A q \in F \ A : ~Adjacent8(p, q)

\* C11: the point list holds every cell of the edge mask once, also the cells
\* of chains too short to be returned as contours; when the mask is 8 x 8 and
\* holds two separate diagonal chains of three cells, extractContours returns
\* no contour and the point list has these 6 cells.
C11_PointsKeepShortChains ==
  (Analysed /\ variant \in LineVariants) =>
    LET F == FlaggedCells(analysis.edgeMask, analysis.outW)
    IN  /\ PointCells(analysis) = F
        /\ Len(analysis.points) = Cardinality(F)
        /\ ContourCells(analysis) \subseteq F
        /\ (analysis.outW = 8 /\ analysis.outH = 8 /\ TwoDiagonalChains(F))
             => /\ analysis.contours = <<>>
                /\ Len(analysis.points) = 6

C11_Witness ==
  /\ Analysed /\ variant \in LineVariants
  /\ analysis.outW = 8 /\ analysis.outH = 8
  /\ TwoDiagonalChains(FlaggedCells(analysis.edgeMask, analysis.outW))
  /\ analysis.contours = <<>>
  /\ PointCells(analysis) = FlaggedCells(analysis.edgeMask, analysis.outW)
  /\ Len(analysis.points) = 6

\* the encoded buffer and the downsampled one disagree at cell (x, y)
CellChanged(v, a, x, y) ==
  IF v \in BmpVariants
    THEN a.preview[y * a.outW + x] # a.base[y * a.outW + x]
  ELSE \E ch \in 0..3 :
         a.preview[(y * a.outW + x) * 4 + ch] # a.base[(y * a.outW + x) * 4 + ch]

\* C12 as stated: in every variant the encoded buffer differs from the
\* downsampled one only at flagged cells and at points of retained contours.
C12_FrameCondition ==
  Analysed =>
    \A p \in GridCells(analysis) :
      CellChanged(variant, analysis, p.x, p.y)
        => p \in PointCells(analysis) \cup ContourCells(analysis)

\* C12 amended: in the PNG variants the encoded buffer differs from the
\* downsampled one only at flagged cells (point overlay) or at points of
\* retained contours (line overlay); in the BMP variants it differs only at
\* interior in-disk cells darker than the threshold, flagged or not, and
\* every such cell is 0 in the encoded buffer.
C12_FrameOrDarkFill ==
  Analysed =>
    \A p \in GridCells(analysis) :
      IF variant \in BmpVariants
        THEN LET fills == /\ Interior(analysis, p.x, p.y)
                          /\ InDisk(analysis, cfg, p.x, p.y)
                          /\ LumAt(analysis, p.x, p.y) < cfg.threshold
             IN  /\ CellChanged(variant, analysis, p.x, p.y) => fills
                 /\ fills => analysis.preview[p.y * analysis.outW + p.x] = 0
      ELSE CellChanged(variant, analysis, p.x, p.y)
             => p \in (IF variant \in LineVariants THEN ContourCells(analysis)
                       ELSE PointCells(analysis))

\* a BMP variant filled a dark cell that is not flagged, next to a flagged one
C12_Witness ==
  /\ Analysed /\ variant \in BmpVariants
  /\ Len(analysis.points) >= 1
  /\ \E p \in GridCells(analysis) :
       /\ p \notin PointCells(analysis)
       /\ LumAt(analysis, p.x, p.y) > 0
       /\ CellChanged(variant, analysis, p.x, p.y)
       /\ analysis.preview[p.y * analysis.outW + p.x] = 0

\* the variants that paint each flagged cell as the scan finds it
PointVariants == Variants \ (LineVariants \cup BmpVariants)

\* the cells the detector's rule selects on the downsampled luminance grid
EdgeCells(a, c) ==
  {p \in GridCells(a) :
     /\ Interior(a, p.x, p.y)
     /\ InDisk(a, c, p.x, p.y)
     /\ LumAt(a, p.x, p.y) < c.threshold
     /\ HasLitNeighbour(a, c.threshold, p.x, p.y)}

PixelAt(a, p) ==
  [ch \in 0..3 |-> a.preview[(p.y * a.outW + p.x) * 4 + ch]]

\* C13: in the point-overlay variants every flagged cell's pixel of the
\* encoded buffer is (0, 255, 255) with alpha 255, every point is a flagged
\* cell times step, and the points divided by step are the flagged cells.
C13_PointOverlay ==
  (Analysed /\ variant \in PointVariants) =>
    /\ \A p \in EdgeCells(analysis, cfg) :
         PixelAt(analysis, p) = [ch \in 0..3 |-> <<0, 255, 255, 255>>[ch + 1]]
    /\ \A i \in 1..Len(analysis.points) :
         /\ analysis.points[i].x % analysis.step = 0
         /\ analysis.points[i].y % analysis.step = 0
    /\ PointCells(analysis) = EdgeCells(analysis, cfg)
    /\ Len(analysis.points) = Cardinality(EdgeCells(analysis, cfg))

\* a grey variant at stride 2 painted two or more flagged cells
C13_Witness ==
  /\ Analysed /\ variant \in GreyPngVariants
  /\ analysis.step = 2
  /\ Cardinality(EdgeCells(analysis, cfg)) >= 2
  /\ \E p \in EdgeCells(analysis, cfg) :
       /\ [x |-> p.x * 2, y |-> p.y * 2] \in PointsOf(analysis.points)
       /\ PixelAt(analysis, p) = [ch \in 0..3 |-> <<0, 255, 255, 255>>[ch + 1]]
       /\ analysis.base[(p.y * analysis.outW + p.x) * 4] > 0

(***************************************************************************)
(* SpecLine: one call of drawLine, an iteration of its loop per step, on   *)
(* buffers of up to MaxLineW x MaxLineH pixels, for every pair of end      *)
(* points up to two cells outside the buffer on each side.                 *)
(***************************************************************************)
\* a buffer in which no pixel has the highlight colour
PlainBuffer(w, h) == [i \in 0..(w * h * 4 - 1) |-> Dim[(i % 4) + 1]]

InitLine ==
  /\ \E w \in 1..MaxLineW, h \in 1..MaxLineH :
       \E x0 \in (-2)..(w + 1), x1 \in (-2)..(w + 1),
          y0 \in (-2)..(h + 1), y1 \in (-2)..(h + 1) :
         line = LineInit(PlainBuffer(w, h), w, h, x0, y0, x1, y1, CYAN)
  /\ variant = 1 /\ cfg = ProgramCfg(1) /\ path = "/" /\ pc = "idle"
  /\ resp = NoValue /\ fetchCount = 0 /\ decodeCount = 0
  /\ decoded = NoValue /\ analysis = NoValue /\ response = NoValue
  /\ edgeMask = <<>> /\ maskW = 0 /\ maskH = 0 /\ ec = NoValue
  /\ srcW = 1 /\ srcH = 0 /\ down = NoValue
  /\ reqs = NoValue

\* an iteration that plots the current cell and moves on
LineMove ==
  /\ line.pc = "loop"
  /\ ~(line.x0 = line.x1 /\ line.y0 = line.y1)
  /\ line' = LineStep(line)
  /\ UNCHANGED <<handlerVars, contourVars, downVars, reqVars>>

\* the iteration that plots (x1, y1) and breaks
LineBreak ==
  /\ line.pc = "loop"
  /\ line.x0 = line.x1 /\ line.y0 = line.y1
  /\ line' = LineStep(line)
  /\ UNCHANGED <<handlerVars, contourVars, downVars, reqVars>>

NextLine ==
  \/ LineMove
  \/ LineBreak

SpecLine == InitLine /\ [][NextLine]_vars

\* ---- vocabulary of the line claim ----
InBuffer(l, p) == 0 <= p.x /\ p.x < l.w /\ 0 <= p.y /\ p.y < l.h

\* C14: drawLine steps from (x0, y0), one cell at a time, reaches (x1, y1)
\* after max(dx, dy) moves and stops there; the buffer keeps its size; a
\* pixel is (0, 255, 255, 255) if its cell was stepped on and has the value
\* it had at the call otherwise, so stepped cells outside the buffer change
\* nothing.
C14_LineClipped ==
  LET l == line
      steps == Max(l.dx, l.dy)
  IN  /\ Len(l.trail) <= steps + (IF l.pc = "done" THEN 1 ELSE 0)
      /\ l.trail # <<>> => l.trail[1] = l.start
      /\ \A i \in 1..(Len(l.trail) - 1) :
           /\ l.trail[i + 1] # l.trail[i]
           /\ Abs(l.trail[i + 1].x - l.trail[i].x) <= 1
           /\ Abs(l.trail[i + 1].y - l.trail[i].y) <= 1
      /\ l.pc = "loop" => Len(l.trail) = 0 \/ Adjacent8(l.trail[Len(l.trail)],
                                                         [x |-> l.x0, y |-> l.y0])
      /\ l.pc = "done" =>
           /\ Len(l.trail) = steps + 1
           /\ l.trail[Len(l.trail)] = [x |-> l.x1, y |-> l.y1]
           /\ l.x0 = l.x1 /\ l.y0 = l.y1
      /\ DOMAIN l.rgba = 0..(l.w * l.h * 4 - 1)
      /\ \A x \in 0..(l.w - 1) : \A y \in 0..(l.h - 1) : \A ch \in 0..3 :
           l.rgba[(y * l.w + x) * 4 + ch] =
             IF [x |-> x, y |-> y] \in PointsOf(l.trail)
               THEN <<0, 255, 255, 255>>[ch + 1]
             ELSE PlainBuffer(l.w, l.h)[(y * l.w + x) * 4 + ch]

\* a finished line that began outside the buffer, crossed it and ended
\* outside, painting some cells and leaving others
C14_Witness ==
  /\ line.pc = "done"
  /\ ~InBuffer(line, line.start)
  /\ ~InBuffer(line, [x |-> line.x1, y |-> line.y1])
  /\ \E p \in PointsOf(line.trail) :
       /\ InBuffer(line, p)
       /\ line.rgba[(p.y * line.w + p.x) * 4] = 0
  /\ \E x \in 0..(line.w - 1) : \E y \in 0..(line.h - 1) :
       line.rgba[(y * line.w + x) * 4] = Dim[1]

(***************************************************************************)
(* SpecConcurrent: NumRequests invocations of one worker's handler in one  *)
(* isolate.  An invocation runs until it awaits (the fetch, the body, and  *)
(* in the workers of index.js the promise of generateCoronalHolePNG), and  *)
(* the others may run while it waits.  Everything an invocation keeps over *)
(* an await is a local binding of its own call: url (its pathname),        *)
(* IMAGE_URL, resp and the settled result.  The module level holds only    *)
(* constants.  env records, per invocation, what the upstream did.         *)
(***************************************************************************)
Requests == 1..NumRequests

\* url.searchParams.get("date") || "2025/12/11"; the workers of index.js
\* use the constant DATE_PATH
Dates(v) ==
  IF v \in CatchAllVariants THEN {"2025/12/11"} ELSE {"2025/12/11", "2024/05/10"}

ImageUrl(date) ==
  "https://suntoday.lmsal.com/sdomedia/SunInTime/" \o date \o "/f0193.jpg"

\* the Response fetch(url) resolves to
UpstreamAt(st, url) == [Upstream(st) EXCEPT !.url = url]

\* the decoded bodies the upstream serves: a dark cell on a bright disk, a
\* bright cell on a dark disk, and a uniform image
ServedImages ==
  { MakeImage(3, 3, Bright, VeryDark, {4}, 1),
    MakeImage(3, 3, VeryDark, Bright, {4}, 1),
    MakeImage(3, 3, Bright, Bright, {}, 1) }

NoEnv == [fetch |-> NoValue, body |-> NoValue]

NewRequest(p, date) ==
  [pc |-> "start", path |-> p, imageUrl |-> ImageUrl(date), resp |-> NoValue,
   result |-> NoValue, response |-> NoValue, env |-> NoEnv]

InitConcurrent ==
  /\ variant \in Variants
  /\ cfg = ProgramCfg(variant)
  /\ reqs \in [Requests -> {NewRequest(p, d) : p \in Paths(variant), d \in Dates(variant)}]
  /\ path = "/" /\ pc = "idle"
  /\ resp = NoValue /\ fetchCount = 0 /\ decodeCount = 0
  /\ decoded = NoValue /\ analysis = NoValue /\ response = NoValue
  /\ edgeMask = <<>> /\ maskW = 0 /\ maskH = 0 /\ ec = NoValue
  /\ srcW = 1 /\ srcH = 0 /\ down = NoValue
  /\ line = NoValue

PathOf_shared(rs, r) == rs[1].path

\* url.pathname of invocation r
PathOf(rs, r) == rs[r].path

\* generateCoronalHolePNG threw, or the handler returned an error response:
\* in index.js the rejection reaches the catch of fetch() when it resumes
Fails(v, rq, rsp) ==
  IF v \in CatchAllVariants
    THEN [rq EXCEPT !.pc = "awaitResult", !.result = [threw |-> TRUE, response |-> rsp]]
  ELSE [rq EXCEPT !.pc = "done", !.response = rsp]

ConcurrentUnchanged ==
  UNCHANGED <<handlerVars, contourVars, downVars, lineVars>>

ReqCallFetch(r) ==
  /\ reqs[r].pc = "start"
  /\ reqs' = [reqs EXCEPT ![r].pc = "awaitFetch"]
  /\ ConcurrentUnchanged

ReqFetchRejects(r) ==
  /\ reqs[r].pc = "awaitFetch"
  /\ reqs' = [reqs EXCEPT
               ![r] = Fails(variant,
                            [reqs[r] EXCEPT !.env.fetch = [rejects |-> TRUE, status |-> 0]],
                            Thrown(variant, NetworkError))]
  /\ ConcurrentUnchanged

ReqFetchNotOk(r) ==
  /\ reqs[r].pc = "awaitFetch"
  /\ \E st \in Statuses :
       /\ ~Upstream(st).ok
       /\ reqs' = [reqs EXCEPT
                    ![r] = Fails(variant,
                                 [reqs[r] EXCEPT !.resp = UpstreamAt(st, reqs[r].imageUrl),
                                           !.env.fetch = [rejects |-> FALSE, status |-> st]],
                                 FetchFailed(variant, UpstreamAt(st, reqs[r].imageUrl)))]
  /\ ConcurrentUnchanged

ReqFetchOk(r) ==
  /\ reqs[r].pc = "awaitFetch"
  /\ \E st \in Statuses :
       /\ Upstream(st).ok
       /\ reqs' = [reqs EXCEPT
                    ![r] = [reqs[r] EXCEPT !.pc = "awaitBody",
                                     !.resp = UpstreamAt(st, reqs[r].imageUrl),
                                     !.env.fetch = [rejects |-> FALSE, status |-> st]]]
  /\ ConcurrentUnchanged

ReqBodyRejects(r) ==
  /\ reqs[r].pc = "awaitBody"
  /\ reqs' = [reqs EXCEPT
               ![r] = Fails(variant, [reqs[r] EXCEPT !.env.body = [kind |-> "rejects"]],
                            Thrown(variant, BodyError))]
  /\ ConcurrentUnchanged

ReqDecodeThrows(r) ==
  /\ reqs[r].pc = "awaitBody"
  /\ reqs' = [reqs EXCEPT
               ![r] = Fails(variant, [reqs[r] EXCEPT !.env.body = [kind |-> "undecodable"]],
                            DecodeFailed(variant, DecodeError))]
  /\ ConcurrentUnchanged

ReqEncodeThrows(r) ==
  /\ reqs[r].pc = "awaitBody"
  /\ variant \notin BmpVariants
  /\ reqs' = [reqs EXCEPT
               ![r] = Fails(variant, [reqs[r] EXCEPT !.env.body = [kind |-> "unencodable"]],
                            Thrown(variant, EncodeError))]
  /\ ConcurrentUnchanged

\* the body arrives: decode, downscale, detect, draw, encode.  part_000 and
\* part_001 return the Response; generateCoronalHolePNG returns its result
ReqAnalyse(r) ==
  /\ reqs[r].pc = "awaitBody"
  /\ \E img \in ServedImages :
       LET a == Analyse(variant, cfg, img)
           served == [reqs[r] EXCEPT !.env.body = [kind |-> "image", image |-> img]]
       IN  reqs' = [reqs EXCEPT
                     ![r] = IF variant \in CatchAllVariants
                              THEN [served EXCEPT !.pc = "awaitResult",
                                                  !.result = [threw |-> FALSE, analysis |-> a]]
                            ELSE [served EXCEPT
                                    !.pc = "done",
                                    !.response = Succeeded(variant, PathOf(reqs, r),
                                                           served.resp, a)]]
  /\ ConcurrentUnchanged

\* fetch() of index.js resumes with the result, or in its catch
ReqResume(r) ==
  /\ reqs[r].pc = "awaitResult"
  /\ reqs' = [reqs EXCEPT
               ![r].pc = "done",
               ![r].response =
                 IF reqs[r].result.threw THEN reqs[r].result.response
                 ELSE Succeeded(variant, PathOf(reqs, r), reqs[r].resp,
                                reqs[r].result.analysis)]
  /\ ConcurrentUnchanged

NextConcurrent ==
  \E r \in Requests :
    \/ ReqCallFetch(r)
    \/ ReqFetchRejects(r)
    \/ ReqFetchNotOk(r)
    \/ ReqFetchOk(r)
    \/ ReqBodyRejects(r)
    \/ ReqDecodeThrows(r)
    \/ ReqEncodeThrows(r)
    \/ ReqAnalyse(r)
    \/ ReqResume(r)

SpecConcurrent == InitConcurrent /\ [][NextConcurrent]_vars

\* ---- vocabulary of the isolation claim ----
\* the response of a request that is alone in the isolate, asks for path p
\* and image url u, and meets the upstream behaviour e
AloneResponse(v, c, p, u, e) ==
  IF e.fetch.rejects THEN Thrown(v, NetworkError)
  ELSE IF ~Upstream(e.fetch.status).ok
    THEN FetchFailed(v, UpstreamAt(e.fetch.status, u))
  ELSE IF e.body.kind = "rejects" THEN Thrown(v, BodyError)
  ELSE IF e.body.kind = "undecodable" THEN DecodeFailed(v, DecodeError)
  ELSE IF e.body.kind = "unencodable" THEN Thrown(v, EncodeError)
  ELSE Succeeded(v, p, UpstreamAt(e.fetch.status, u), Analyse(v, c, e.body.image))

\* what each request asked for, fixed at its start
Asked(rs) == [r \in Requests |-> [path |-> rs[r].path, imageUrl |-> rs[r].imageUrl]]

\* C15: whatever the interleaving, a request that has finished returned the
\* response it returns when it runs alone with the same path, url and
\* upstream behaviour; and no step of one request changes what another
\* request holds.
C15_Isolation ==
  [][ /\ \A r \in Requests :
           reqs'[r].pc = "done" =>
             reqs'[r].response =
               AloneResponse(variant, cfg, Asked(reqs)[r].path,
                             Asked(reqs)[r].imageUrl, reqs'[r].env)
      /\ \A r \in Requests :
           reqs'[r] # reqs[r] => \A q \in Requests \ {r} : reqs'[q] = reqs[q]
      /\ Asked(reqs') = Asked(reqs) ]_vars

\* the requests of one isolate were served different images
\* and both finished with a success
C15_Witness ==
  /\ \A r \in Requests : reqs[r].pc = "done"
  /\ \A r \in Requests : reqs[r].env.body # NoValue
  /\ \A r \in Requests : reqs[r].env.body.kind = "image"
  /\ reqs[1].env.body.image # reqs[2].env.body.image
  /\ \A r \in Requests : reqs[r].response.kind = "response"
  /\ \A r \in Requests : reqs[r].response.status = 200

(***************************************************************************)
(* The walk of extractContours, checked on the steps of SpecContours.      *)
(***************************************************************************)
\* W, NW, N, NE, E, SE, S, SW: west is x - 1, north is y - 1
Compass ==
  << [x |-> -1, y |-> 0], [x |-> -1, y |-> -1], [x |-> 0, y |-> -1],
     [x |-> 1, y |-> -1], [x |-> 1, y |-> 0], [x |-> 1, y |-> 1],
     [x |-> 0, y |-> 1], [x |-> -1, y |-> 1] >>

Towards(p, k) == [x |-> p.x + Compass[k].x, y |-> p.y + Compass[k].y]

\* the k-th neighbour of p is inside the grid, flagged and unvisited
Candidate(s, p, k) ==
  LET q == Towards(p, k)
  IN  /\ 0 <= q.x /\ q.x < maskW /\ 0 <= q.y /\ q.y < maskH
      /\ edgeMask[q.y * maskW + q.x] # 0
      /\ s.visited[q.y * maskW + q.x] = 0

\* the flagged unvisited cells, as indices in row-major order
Unvisited(s) == {i \in DOMAIN edgeMask : edgeMask[i] # 0 /\ s.visited[i] = 0}

LastPoint(s) == s.contour[Len(s.contour)]

\* C16: a contour starts at the first flagged unvisited cell in row-major
\* order; each step appends the first candidate in the order W, NW, N, NE,
\* E, SE, S, SW around the newest point; the walk ends only when the newest
\* point has no candidate; the walk continues from the newest point and
\* never returns to a point of the contour.
C16_GreedyOrder ==
  [][ /\ (ec.pc = "scan" /\ ec'.pc = "walk") =>
           /\ Unvisited(ec) # {}
           /\ \E i \in Unvisited(ec) :
                /\ \A j \in Unvisited(ec) : i <= j
                /\ ec'.contour = <<Cell(maskW, i)>>
      /\ (ec.pc = "walk" /\ ec'.pc = "walk") =>
           \E k \in 1..8 :
             /\ Candidate(ec, LastPoint(ec), k)
             /\ \A j \in 1..(k - 1) : ~Candidate(ec, LastPoint(ec), j)
             /\ ec'.contour = Append(ec.contour, Towards(LastPoint(ec), k))
             /\ Towards(LastPoint(ec), k) \notin PointsOf(ec.contour)
      /\ (ec.pc = "walk" /\ ec'.pc # "walk") =>
           /\ \A k \in 1..8 : ~Candidate(ec, LastPoint(ec), k)
           /\ ec'.chains = Append(ec.chains, ec.contour)
      /\ ec'.pc = "walk" =>
           /\ [x |-> ec'.cx, y |-> ec'.cy] = LastPoint(ec')
           /\ Cardinality(PointsOf(ec'.contour)) = Len(ec'.contour) ]_vars

\* a returned contour whose walk turned: it has a step to the west or north
\* and a step to the east or south-east
C16_Witness ==
  /\ ContourDone
  /\ \E n \in 1..Len(ec.contours) :
       LET c == ec.contours[n]
       IN  /\ \E i \in 1..(Len(c) - 1) : c[i + 1].x < c[i].x \/ c[i + 1].y < c[i].y
           /\ \E i \in 1..(Len(c) - 1) : c[i + 1].x > c[i].x /\ c[i + 1].y >= c[i].y

\* the loops of extractContours are synchronous code: the engine keeps
\* running them while a step is possible
SpecContoursFair == SpecContours /\ WF_vars(NextContours)

\* C17: extractContours returns; when it has, the visited cells are exactly
\* the flagged cells, every flagged cell is at exactly one place of exactly
\* one walked chain and the chains hold nothing else; a cell's visited mark
\* is set once, on a flagged cell, and never changes afterwards.
C17_TerminatesVisitedOnce ==
  /\ <>ContourDone
  /\ [](ContourDone =>
          /\ \A i \in DOMAIN edgeMask : (ec.visited[i] # 0) <=> (edgeMask[i] # 0)
          /\ \A p \in FlaggedCells(edgeMask, maskW) : Occurrences(ec.chains, p) = 1
          /\ \A n \in 1..Len(ec.chains) :
               PointsOf(ec.chains[n]) \subseteq FlaggedCells(edgeMask, maskW)
          /\ ec.contour = <<>>)
  /\ [][\A i \in DOMAIN edgeMask :
          /\ ec.visited[i] # 0 => ec'.visited[i] = ec.visited[i]
          /\ ec'.visited[i] # ec.visited[i] =>
               /\ edgeMask[i] # 0
               /\ ec'.visited[i] = 1
               /\ Len(ec'.contour) = Len(ec.contour) + 1
               /\ LastPoint(ec') = Cell(maskW, i)]_vars

\* a finished run over a mask with flagged and unflagged cells that walked
\* three or more chains
C17_Witness ==
  /\ ContourDone
  /\ Len(ec.chains) >= 3
  /\ \E i \in DOMAIN edgeMask : edgeMask[i] = 0 /\ ec.visited[i] = 0
  /\ Cardinality({i \in DOMAIN edgeMask : ec.visited[i] = 1}) >= 5

\* the cells drawLine steps on between two points of the analysis grid
SteppedCells(a, p, q) ==
  LineRun(LineInit(a.base, a.outW, a.outH, p.x, p.y, q.x, q.y, CYAN)).trail

\* C18: in the line-overlay variant consecutive points of a contour are
\* distinct and at most one cell apart in x and in y, drawLine between them
\* steps on these two cells only, the pixels that rendering changed are
\* exactly the points of the retained contours (all of them cyan), and a
\* flagged cell outside every retained contour keeps its colour.
C18_LineOverlayCells ==
  (Analysed /\ variant \in LineVariants) =>
    /\ \A n \in 1..Len(analysis.contours) :
         \A i \in 1..(Len(analysis.contours[n]) - 1) :
           LET p == analysis.contours[n][i]
               q == analysis.contours[n][i + 1]
           IN  /\ p # q
               /\ Abs(p.x - q.x) <= 1 /\ Abs(p.y - q.y) <= 1
               /\ SteppedCells(analysis, p, q) = <<p, q>>
    /\ {p \in GridCells(analysis) : CellChanged(variant, analysis, p.x, p.y)}
         = ContourCells(analysis)
    /\ \A p \in ContourCells(analysis) :
         PixelAt(analysis, p) = [ch \in 0..3 |-> <<0, 255, 255, 255>>[ch + 1]]
    /\ \A p \in PointCells(analysis) \ ContourCells(analysis) :
         \A ch \in 0..3 :
           PixelAt(analysis, p)[ch] = analysis.base[(p.y * analysis.outW + p.x) * 4 + ch]

\* a contour was drawn and a flagged cell of a discarded chain was left as
\* it was
C18_Witness ==
  /\ Analysed /\ variant \in LineVariants
  /\ Len(analysis.contours) >= 1
  /\ \E p \in PointCells(analysis) \ ContourCells(analysis) :
       /\ ~CellChanged(variant, analysis, p.x, p.y)
       /\ \E q \in ContourCells(analysis) : Adjacent8(p, q)

\* the variants whose scan writes the buffer it reads luminance from
InPlaceVariants == GreyPngVariants \cup BmpVariants

\* position of a point of the list in the row-major order of the grid
ScanIndex(a, q) == (q.y \div a.step) * a.outW + (q.x \div a.step)

\* C19: in the variants that overwrite the buffer they read luminance from,
\* the point list is what the detector's rule gives on the untouched
\* downsampled luminance grid: the same cells, each once, in scan order.
C19_InPlaceSameDetection ==
  (Analysed /\ variant \in InPlaceVariants /\ cfg.threshold >= 1) =>
    /\ PointCells(analysis) = EdgeCells(analysis, cfg)
    /\ \A i \in 1..Len(analysis.points) :
         analysis.points[i] =
           [x |-> (analysis.points[i].x \div analysis.step) * analysis.step,
            y |-> (analysis.points[i].y \div analysis.step) * analysis.step]
    /\ \A i \in 1..(Len(analysis.points) - 1) :
         ScanIndex(analysis, analysis.points[i]) < ScanIndex(analysis, analysis.points[i + 1])

\* the scan overwrote a flagged cell of luminance above 0 and afterwards
\* read it as the west or north neighbour of a dark cell that has no lit
\* neighbour, and did not flag that cell
C19_Witness ==
  /\ Analysed /\ variant \in InPlaceVariants /\ cfg.threshold >= 1
  /\ \E p \in EdgeCells(analysis, cfg) :
       /\ LumAt(analysis, p.x, p.y) > 0
       /\ CellChanged(variant, analysis, p.x, p.y)
       /\ \E q \in {[x |-> p.x + 1, y |-> p.y], [x |-> p.x, y |-> p.y + 1]} :
            /\ Interior(analysis, q.x, q.y)
            /\ InDisk(analysis, cfg, q.x, q.y)
            /\ LumAt(analysis, q.x, q.y) < cfg.threshold
            /\ q \notin PointCells(analysis)

====
